---- MODULE Spec2Model ----
(***************************************************************************)
(* Bionabu research flow controller: the ResearchContext reducer and its   *)
(* asynchronous action creators (getRecommendations, getSummaries,         *)
(* sendChatMessage), in the two builds the repository ships: the           *)
(* TypeScript ResearchContext (build = "tsx") and the JavaScript           *)
(* ResearchContext.js (build = "js").                                       *)
(***************************************************************************)
EXTENDS Integers, Sequences, FiniteSets, TLC

VARIABLES build, state, pending, statusPending, lastCall, chat, chatTopic,
          searchBar, location, automatic

vars == <<build, state, pending, statusPending, lastCall, chat, chatTopic,
         searchBar, location, automatic>>

\* The variables the controller's operations, and the continuations of the
\* handlers that await them, write.
controller ==
  <<build, state, pending, statusPending, lastCall, chatTopic, location,
    automatic>>

(***************************************************************************)
(* Bounds of the model.                                                    *)
(***************************************************************************)
MaxQueryLen == 1
MaxArticleId == 2
MaxRecs == 2
MaxSelected == 2
MaxPending == 2
MaxHistory == 1
MaxMounts == 2
MaxQuestions == 1
MaxAutomatic == 2

(***************************************************************************)
(* Values.  A JavaScript string is a sequence of characters; null is a     *)
(* value of its own; an absent object property is an absent record field.  *)
(***************************************************************************)
Chars == {" ", "a"}

Strings == UNION {[1..n -> Chars] : n \in 0..MaxQueryLen}

Null == [null |-> TRUE]

NullString == "null"

Builds == {"tsx", "js"}

ResearchStep == {"research-query", "recommendations", "summaries", "chat"}

ErrorMessages == {"Network Error"}

ValidationMessage == "Research query is required"

\* What the views pass to setError: null on dismissal, or handleApiError(err).
DismissedOrMapped == {NullString, "Error: Network Error"}

\* String.prototype.trim: drop leading and trailing white space.
RECURSIVE TrimStart(_)
TrimStart(s) ==
  IF s # <<>> /\ Head(s) = " " THEN TrimStart(Tail(s)) ELSE s

RECURSIVE TrimEnd(_)
TrimEnd(s) ==
  IF s # <<>> /\ s[Len(s)] = " " THEN TrimEnd(SubSeq(s, 1, Len(s) - 1)) ELSE s

trim(s) == TrimEnd(TrimStart(s))

\* Array.prototype.filter and Array.prototype.map over sequences.
RECURSIVE FilterId(_, _, _)
FilterId(seq, id, keep) ==
  IF seq = <<>> THEN <<>>
  ELSE IF (Head(seq).id = id) = keep
       THEN <<Head(seq)>> \o FilterId(Tail(seq), id, keep)
       ELSE FilterId(Tail(seq), id, keep)

\* { ...rec, selected: flag }
WithSelected(rec, flag) == [id |-> rec.id, selected |-> flag]

\* rec.selected read as a condition (undefined is falsy).
IsSelected(rec) == "selected" \in DOMAIN rec /\ rec.selected

Ids(seq) == {seq[i].id : i \in 1..Len(seq)}

(***************************************************************************)
(* What the research service may answer.                                   *)
(***************************************************************************)
ArticleIds == 1..MaxArticleId

\* An Article as the service sends it: selected is a flag the client adds.
FreshArticles == {[id |-> i] : i \in ArticleIds}

\* An Article of any response the Article type admits (selected?: boolean).
Articles ==
  FreshArticles
    \cup {[id |-> i, selected |-> b] : i \in ArticleIds, b \in BOOLEAN}

\* The lists of at most MaxRecs articles with distinct ids.
ListsOf(articles) ==
  {l \in UNION {[1..n -> articles] : n \in 0..MaxRecs} :
     \A i, j \in 1..Len(l) : i # j => l[i].id # l[j].id}

FreshRecommendationLists == ListsOf(FreshArticles)

RecommendationLists == ListsOf(Articles)

SummaryResponses ==
  {[article_summaries |-> "s1", suggested_questions |-> <<>>],
   [article_summaries |-> "s2", suggested_questions |-> <<<<"a">>>>]}

ChatMessages ==
  {[role |-> "user", message |-> <<"a">>],
   [role |-> "assistant", message |-> <<"a">>]}

ChatHistories == UNION {[1..n -> ChatMessages] : n \in 0..MaxHistory}

ChatResponses ==
  {[chat_history |-> h, follow_up_questions |-> f] :
     h \in ChatHistories, f \in {<<>>, <<<<"a">>>>}}

SystemStatuses == {[status |-> "ready"]}

(***************************************************************************)
(* The reducer.                                                            *)
(***************************************************************************)
initialState ==
  [currentStep |-> "research-query",
   researchQuery |-> <<>>,
   recommendations |-> <<>>,
   selectedArticles |-> <<>>,
   summaries |-> Null,
   suggestedQuestions |-> <<>>,
   chatHistory |-> <<>>,
   followUpQuestions |-> <<>>,
   systemStatus |-> Null,
   isLoading |-> FALSE,
   error |-> NullString]

SET_LOADING(s, payload) ==
  [s EXCEPT !.isLoading = payload, !.error = NullString]

\* A SET_ERROR that stores the message and leaves the loading flag alone.
SET_ERROR_keepsLoading(s, payload) == [s EXCEPT !.error = payload]

SET_ERROR(s, payload) ==
  [s EXCEPT !.isLoading = FALSE, !.error = payload]

SET_SYSTEM_STATUS(s, payload) == [s EXCEPT !.systemStatus = payload]

SET_RESEARCH_QUERY(s, payload) == [s EXCEPT !.researchQuery = payload]

\* ResearchContext (TypeScript): clears the selection and the summaries.
SET_RECOMMENDATIONS_tsx(s, payload) ==
  [s EXCEPT !.recommendations = payload,
            !.selectedArticles = <<>>,
            !.summaries = Null,
            !.currentStep = "recommendations",
            !.isLoading = FALSE,
            !.error = NullString]

\* ResearchContext.js: keeps the selection and the summaries.
SET_RECOMMENDATIONS_js(s, payload) ==
  [s EXCEPT !.recommendations = payload,
            !.currentStep = "recommendations",
            !.isLoading = FALSE,
            !.error = NullString]

\* A select that sets the flag and adds nothing to selectedArticles.
SELECT_ARTICLE_flagsOnly(s, articleId) ==
  [s EXCEPT
     !.recommendations =
        [i \in 1..Len(s.recommendations) |->
           IF s.recommendations[i].id = articleId
           THEN WithSelected(s.recommendations[i], TRUE)
           ELSE s.recommendations[i]]]

SELECT_ARTICLE(s, articleId) ==
  [s EXCEPT
     !.recommendations =
        [i \in 1..Len(s.recommendations) |->
           IF s.recommendations[i].id = articleId
           THEN WithSelected(s.recommendations[i], TRUE)
           ELSE s.recommendations[i]],
     !.selectedArticles =
        s.selectedArticles \o FilterId(s.recommendations, articleId, TRUE)]

\* A deselect that drops the whole selection instead of the one article.
DESELECT_ARTICLE_dropsAll(s, deselectedId) ==
  [s EXCEPT
     !.recommendations =
        [i \in 1..Len(s.recommendations) |->
           IF s.recommendations[i].id = deselectedId
           THEN WithSelected(s.recommendations[i], FALSE)
           ELSE s.recommendations[i]],
     !.selectedArticles = <<>>]

DESELECT_ARTICLE(s, deselectedId) ==
  [s EXCEPT
     !.recommendations =
        [i \in 1..Len(s.recommendations) |->
           IF s.recommendations[i].id = deselectedId
           THEN WithSelected(s.recommendations[i], FALSE)
           ELSE s.recommendations[i]],
     !.selectedArticles = FilterId(s.selectedArticles, deselectedId, FALSE)]

\* A clearing that empties selectedArticles and leaves the flags.
CLEAR_SELECTIONS_keepsFlags(s) == [s EXCEPT !.selectedArticles = <<>>]

\* A clearing that also goes back to the first step.
CLEAR_SELECTIONS_restarts(s) ==
  [s EXCEPT
     !.recommendations =
        [i \in 1..Len(s.recommendations) |->
           WithSelected(s.recommendations[i], FALSE)],
     !.selectedArticles = <<>>,
     !.currentStep = "research-query"]

CLEAR_SELECTIONS(s) ==
  [s EXCEPT
     !.recommendations =
        [i \in 1..Len(s.recommendations) |->
           WithSelected(s.recommendations[i], FALSE)],
     !.selectedArticles = <<>>]

SET_SUMMARIES(s, payload) ==
  [s EXCEPT !.summaries = payload,
            !.currentStep = "summaries",
            !.isLoading = FALSE,
            !.error = NullString]

\* A SET_SUGGESTED_QUESTIONS that writes the follow-up questions instead.
SET_SUGGESTED_QUESTIONS_asFollowUps(s, payload) ==
  [s EXCEPT !.followUpQuestions = payload]

SET_SUGGESTED_QUESTIONS(s, payload) == [s EXCEPT !.suggestedQuestions = payload]

\* A SET_CHAT_HISTORY that appends the payload to the history it has.
SET_CHAT_HISTORY_appends(s, payload) ==
  [s EXCEPT !.chatHistory = s.chatHistory \o payload]

SET_CHAT_HISTORY(s, payload) == [s EXCEPT !.chatHistory = payload]

SET_FOLLOW_UP_QUESTIONS(s, payload) == [s EXCEPT !.followUpQuestions = payload]

\* A transition that drops what the steps after the target produced.
NEXT_STEP_dropsLaterSteps(s, payload) ==
  [s EXCEPT !.currentStep = payload,
            !.summaries = IF payload = "recommendations" THEN Null ELSE @]

NEXT_STEP(s, payload) == [s EXCEPT !.currentStep = payload]

\* A RESET_RESEARCH that returns initialState, system status included.
RESET_RESEARCH_dropsStatus(s) == initialState

RESET_RESEARCH(s) == [initialState EXCEPT !.systemStatus = s.systemStatus]

SET_RECOMMENDATIONS(b, s, payload) ==
  IF b = "tsx" THEN SET_RECOMMENDATIONS_tsx(s, payload)
  ELSE SET_RECOMMENDATIONS_js(s, payload)

(***************************************************************************)
(* The state of the program.                                               *)
(*   build          which ResearchContext the bundle resolved              *)
(*   state          the reducer's state                                    *)
(*   pending        the requests awaiting the service, oldest first        *)
(*   statusPending  the getStatus call of the mount effect is outstanding  *)
(*   lastCall       the operation that ran last, how its call stands and   *)
(*                  the message of the error it threw to its caller (null  *)
(*                  when it threw none)                                    *)
(*   chat           the chat panel of the summaries page: isChatOpen and   *)
(*                  selectedQuestion of ArticleSummaries, and the state    *)
(*                  and refs of the ChatInterface it renders; mounts       *)
(*                  counts the ChatInterface instances created so far,     *)
(*                  the last of them being the one on screen               *)
(*   chatTopic      the researchQuery of the request whose answer          *)
(*                  chatHistory holds                                      *)
(*   searchBar      the SearchBar.js of the landing page of App: whether   *)
(*                  it is on screen, and its isSearching                    *)
(*   location       the location of the router: the pathname of the page   *)
(*                  on screen and, on the search page, the q parameter     *)
(*   automatic      how many getRecommendations calls the effect of        *)
(*                  SearchResults on the q parameter made since the last   *)
(*                  navigation, counted up to MaxAutomatic                 *)
(***************************************************************************)
\* useState and useRef initial values of ArticleSummaries and ChatInterface.
\* selectedQuestion is read only as a condition: null and '' are both falsy.
ChatClosed(mounts) ==
  [mounts |-> mounts,
   isChatOpen |-> FALSE,
   selectedQuestion |-> <<>>,
   localMessages |-> <<>>,
   isWaitingForResponse |-> FALSE,
   localError |-> NullString,
   previousQuery |-> <<>>,
   lastChatHistoryLength |-> 0,
   initialQuestionProcessed |-> FALSE]

Call(op, outcome, message) == [op |-> op, outcome |-> outcome, thrown |-> message]

\* apiService.getRecommendations(query) awaiting its answer.
RecommendationsRequest(query) == [op |-> "getRecommendations", query |-> query]

\* apiService.getRecommendations(query) awaiting its answer, for
\* handleSearch of SearchBar, which navigates to the search page of the query
\* when getRecommendations returns.
SearchRequest(query) ==
  [op |-> "getRecommendations", query |-> query, awaitedBy |-> "handleSearch"]

\* apiService.getRecommendations(query) awaiting its answer, called by the
\* effect of SearchResults on the q parameter, which awaits nothing.
UrlRequest(query) ==
  [op |-> "getRecommendations", query |-> query, awaitedBy |-> "effect"]

\* The page of the Knowledge Hub, path "/".
HomeLocation == [pathname |-> "/"]

\* `/search?q=${encodeURIComponent(query)}`, as useSearchParams reads it back:
\* searchParams.get('q') decodes what encodeURIComponent encoded.
SearchLocation(query) == [pathname |-> "/search", q |-> query]

\* apiService.getSummaries(selectedArticles, researchQuery) awaiting its answer.
SummariesRequest(selectedArticles) ==
  [op |-> "getSummaries", selectedArticles |-> selectedArticles]

\* The handler of the ChatInterface that awaits sendChatMessage.
Caller(view, handler) == [view |-> view, handler |-> handler]

\* No view awaits the call.
NoCaller == Caller(0, "none")

\* apiService.chatWithArticles(userQuestion, selectedArticles, researchQuery,
\* chatHistory) awaiting its answer, and the view that awaits sendChatMessage.
ChatRequest(caller, researchQuery, chatHistory) ==
  [op |-> "sendChatMessage", caller |-> caller,
   researchQuery |-> researchQuery, chatHistory |-> chatHistory]

RemoveAt(seq, i) == SubSeq(seq, 1, i - 1) \o SubSeq(seq, i + 1, Len(seq))

\* useState initial values of a SearchBar that is rendered.
SearchBarCreated == [mounted |-> TRUE, isSearching |-> FALSE]

\* No SearchBar is rendered.
SearchBarRemoved == [mounted |-> FALSE, isSearching |-> FALSE]

Init ==
  /\ build \in Builds
  /\ state = initialState
  /\ pending = <<>>
  /\ statusPending = TRUE
  /\ lastCall = Call("mount", "returned", NullString)
  /\ chat = ChatClosed(0)
  /\ chatTopic = <<>>
  /\ searchBar = SearchBarCreated
  /\ location = HomeLocation
  /\ automatic = 0

\* loadSystemStatus: the status arrives.
LoadSystemStatusFulfilled(status) ==
  /\ statusPending
  /\ statusPending' = FALSE
  /\ state' = SET_SYSTEM_STATUS(state, status)
  /\ lastCall' = Call("loadSystemStatus", "fulfilled", NullString)
  /\ UNCHANGED <<build, location, automatic, chatTopic, pending>>

\* A loadSystemStatus that reports the failure of getStatus as the error.
LoadSystemStatusRejected_reports ==
  /\ statusPending
  /\ statusPending' = FALSE
  /\ state' = SET_ERROR(state, "Network Error")
  /\ lastCall' = Call("loadSystemStatus", "returned", NullString)
  /\ UNCHANGED <<build, location, automatic, chatTopic, pending>>

\* loadSystemStatus: getStatus fails; the failure is logged only.
LoadSystemStatusRejected ==
  /\ statusPending
  /\ statusPending' = FALSE
  /\ lastCall' = Call("loadSystemStatus", "returned", NullString)
  /\ UNCHANGED <<build, location, automatic, chatTopic, state, pending>>

\* getRecommendations(query): up to the await; request is the call as its
\* caller awaits it.
GetRecommendationsAwaited(query, request) ==
  /\ Len(pending) < MaxPending
  /\ state' = SET_RESEARCH_QUERY(SET_LOADING(state, TRUE), query)
  /\ pending' = Append(pending, request)
  /\ lastCall' = Call("getRecommendations", "pending", NullString)
  /\ automatic' = IF request = UrlRequest(query) /\ automatic < MaxAutomatic
                   THEN automatic + 1
                   ELSE automatic
  /\ UNCHANGED <<build, location, chatTopic, statusPending>>

\* getRecommendations(query) of a caller that does nothing after the await.
GetRecommendations(query) ==
  GetRecommendationsAwaited(query, RecommendationsRequest(query))

\* The location after pending[i] resolved: handleSearch of SearchBar
\* navigates to the search page of the query it asked for.
Navigated(i) ==
  IF "awaitedBy" \in DOMAIN pending[i] /\ pending[i].awaitedBy = "handleSearch"
  THEN SearchLocation(pending[i].query)
  ELSE location

\* A getRecommendations that ignores the answer to a call when a later call
\* is still awaited.
GetRecommendationsFulfilled_dropsStale(i, response) ==
  /\ pending[i].op = "getRecommendations"
  /\ state' = IF \E j \in (i + 1)..Len(pending) :
                    pending[j].op = "getRecommendations"
               THEN state
               ELSE SET_RECOMMENDATIONS(build, state, response)
  /\ pending' = RemoveAt(pending, i)
  /\ lastCall' = Call("getRecommendations", "fulfilled", NullString)
  /\ location' = Navigated(i)
  /\ automatic' = IF location' = location THEN automatic ELSE 0
  /\ UNCHANGED <<build, chatTopic, statusPending>>

\* getRecommendations: apiService.getRecommendations resolves.
GetRecommendationsFulfilled(i, response) ==
  /\ pending[i].op = "getRecommendations"
  /\ state' = SET_RECOMMENDATIONS(build, state, response)
  /\ pending' = RemoveAt(pending, i)
  /\ lastCall' = Call("getRecommendations", "fulfilled", NullString)
  /\ location' = Navigated(i)
  /\ automatic' = IF location' = location THEN automatic ELSE 0
  /\ UNCHANGED <<build, chatTopic, statusPending>>

\* getRecommendations: apiService.getRecommendations rejects.
GetRecommendationsRejected(i, message) ==
  /\ pending[i].op = "getRecommendations"
  /\ state' = SET_ERROR(state, message)
  /\ pending' = RemoveAt(pending, i)
  /\ lastCall' = Call("getRecommendations", "rejected", message)
  /\ UNCHANGED <<build, location, automatic, chatTopic, statusPending>>

selectArticle(articleId) ==
  /\ Len(state.selectedArticles)
       + Len(FilterId(state.recommendations, articleId, TRUE)) <= MaxSelected
  /\ state' = SELECT_ARTICLE(state, articleId)
  /\ lastCall' = Call("selectArticle", "returned", NullString)
  /\ UNCHANGED <<build, location, automatic, chatTopic, pending, statusPending>>

deselectArticle(articleId) ==
  /\ state' = DESELECT_ARTICLE(state, articleId)
  /\ lastCall' = Call("deselectArticle", "returned", NullString)
  /\ UNCHANGED <<build, location, automatic, chatTopic, pending, statusPending>>

clearSelections ==
  /\ state' = CLEAR_SELECTIONS(state)
  /\ lastCall' = Call("clearSelections", "returned", NullString)
  /\ UNCHANGED <<build, location, automatic, chatTopic, pending, statusPending>>

\* A guard that tests for the empty string only, without trimming.
QueryMissing_untrimmed(researchQuery) == researchQuery = <<>>

\* The guard of getSummaries: !researchQuery || researchQuery.trim().length === 0
QueryMissing(researchQuery) ==
  researchQuery = <<>> \/ Len(trim(researchQuery)) = 0

\* getSummaries(selectedArticles, researchQuery): up to the throw or the await.
GetSummaries(selectedArticles, researchQuery) ==
  IF QueryMissing(researchQuery)
  THEN /\ state' = SET_ERROR(state, ValidationMessage)
       /\ lastCall' = Call("getSummaries", "rejected", ValidationMessage)
       /\ UNCHANGED <<build, location, automatic, chatTopic, pending, statusPending>>
  ELSE /\ Len(pending) < MaxPending
       /\ state' = SET_LOADING(state, TRUE)
       /\ pending' = Append(pending, SummariesRequest(selectedArticles))
       /\ lastCall' = Call("getSummaries", "pending", NullString)
       /\ UNCHANGED <<build, location, automatic, chatTopic, statusPending>>

\* getSummaries: apiService.getSummaries resolves.
GetSummariesFulfilled(i, response) ==
  /\ pending[i].op = "getSummaries"
  /\ state' = SET_SUGGESTED_QUESTIONS(SET_SUMMARIES(state, response),
                                      response.suggested_questions)
  /\ pending' = RemoveAt(pending, i)
  /\ lastCall' = Call("getSummaries", "fulfilled", NullString)
  /\ UNCHANGED <<build, location, automatic, chatTopic, statusPending>>

\* getSummaries: apiService.getSummaries rejects.
GetSummariesRejected(i, message) ==
  /\ pending[i].op = "getSummaries"
  /\ state' = SET_ERROR(state, message)
  /\ pending' = RemoveAt(pending, i)
  /\ lastCall' = Call("getSummaries", "rejected", message)
  /\ UNCHANGED <<build, location, automatic, chatTopic, statusPending>>

\* sendChatMessage(userQuestion, selectedArticles, researchQuery, chatHistory)
\* called by caller (a ChatInterface, or NoCaller): up to the await.
SendChatMessageFrom(caller, userQuestion, researchQuery, chatHistory) ==
  /\ Len(pending) < MaxPending
  /\ pending' = Append(pending, ChatRequest(caller, researchQuery, chatHistory))
  /\ lastCall' = Call("sendChatMessage", "pending", NullString)
  /\ UNCHANGED <<build, location, automatic, chatTopic, state, statusPending>>

\* sendChatMessage called with no articles, no query and no history, awaited
\* by no view.
SendChatMessage(userQuestion) ==
  SendChatMessageFrom(NoCaller, userQuestion, <<>>, <<>>)

\* sendChatMessage: apiService.chatWithArticles resolves.
SendChatMessageFulfilled(i, response) ==
  /\ pending[i].op = "sendChatMessage"
  /\ state' = NEXT_STEP(
                SET_FOLLOW_UP_QUESTIONS(
                  SET_CHAT_HISTORY(state, response.chat_history),
                  response.follow_up_questions),
                "chat")
  /\ pending' = RemoveAt(pending, i)
  /\ lastCall' = Call("sendChatMessage", "fulfilled", NullString)
  /\ chatTopic' = pending[i].researchQuery
  /\ UNCHANGED <<build, location, automatic, statusPending>>

\* sendChatMessage: apiService.chatWithArticles rejects.
SendChatMessageRejected(i, message) ==
  /\ pending[i].op = "sendChatMessage"
  /\ state' = SET_ERROR(state, message)
  /\ pending' = RemoveAt(pending, i)
  /\ lastCall' = Call("sendChatMessage", "rejected", message)
  /\ UNCHANGED <<build, location, automatic, chatTopic, statusPending>>

setLoading(loading) ==
  /\ state' = SET_LOADING(state, loading)
  /\ lastCall' = Call("setLoading", "returned", NullString)
  /\ UNCHANGED <<build, location, automatic, chatTopic, pending, statusPending>>

setError(error) ==
  /\ state' = SET_ERROR(state, error)
  /\ lastCall' = Call("setError", "returned", NullString)
  /\ UNCHANGED <<build, location, automatic, chatTopic, pending, statusPending>>

setResearchQuery(query) ==
  /\ state' = SET_RESEARCH_QUERY(state, query)
  /\ lastCall' = Call("setResearchQuery", "returned", NullString)
  /\ UNCHANGED <<build, location, automatic, chatTopic, pending, statusPending>>

selectSuggestedQuestion(question) ==
  /\ state' = SET_RESEARCH_QUERY(state, question)
  /\ lastCall' = Call("selectSuggestedQuestion", "returned", NullString)
  /\ UNCHANGED <<build, location, automatic, chatTopic, pending, statusPending>>

nextStep(step) ==
  /\ state' = NEXT_STEP(state, step)
  /\ lastCall' = Call("nextStep", "returned", NullString)
  /\ UNCHANGED <<build, location, automatic, chatTopic, pending, statusPending>>

resetResearch ==
  /\ state' = RESET_RESEARCH(state)
  /\ lastCall' = Call("resetResearch", "returned", NullString)
  /\ chatTopic' = <<>>
  /\ UNCHANGED <<build, location, automatic, pending, statusPending>>

(***************************************************************************)
(* What SearchResults renders, and the chat panel of the summaries page.   *)
(***************************************************************************)
\* SearchResults renders ArticleRecommendations.
ArticleRecommendationsShown ==
  /\ ~state.isLoading
  /\ state.error = NullString
  /\ state.currentStep = "recommendations"

\* SearchResults renders ArticleSummaries when the controller's state is s.
SummariesShownIn(s) ==
  /\ ~s.isLoading
  /\ s.error = NullString
  /\ s.currentStep \in {"summaries", "chat"}
  /\ s.summaries # Null

ArticleSummariesShown == SummariesShownIn(state)

\* The user message a handler adds to the transcript before the answer.
Optimistic(content) ==
  [id |-> "user", type |-> "user", content |-> content, isPending |-> FALSE]

IsOptimistic(msg) == "id" \in DOMAIN msg

\* contextMessages.map(msg => ({ ...msg, isPending: false }))
Confirmed(chatHistory) ==
  [k \in 1..Len(chatHistory) |->
     [role |-> chatHistory[k].role,
      message |-> chatHistory[k].message,
      isPending |-> FALSE]]

\* A ChatInterface is created: its state and refs take their initial values.
Mounted(c, s) ==
  [ChatClosed(c.mounts + 1) EXCEPT
     !.isChatOpen = TRUE,
     !.selectedQuestion = c.selectedQuestion,
     !.previousQuery = s.researchQuery]

\* The ChatInterface is removed, ArticleSummaries stays.
Unmounted(c) ==
  [ChatClosed(c.mounts) EXCEPT !.selectedQuestion = c.selectedQuestion]

\* An effect that adds the confirmed history to the transcript it has.
SyncEffect_appends(c, s) ==
  IF c.previousQuery # s.researchQuery
  THEN [c EXCEPT !.localMessages = <<>>,
                 !.isWaitingForResponse = FALSE,
                 !.previousQuery = s.researchQuery,
                 !.localError = NullString,
                 !.lastChatHistoryLength = 0,
                 !.initialQuestionProcessed = FALSE]
  ELSE IF Len(s.chatHistory) > c.lastChatHistoryLength
       THEN [c EXCEPT !.localMessages = @ \o Confirmed(s.chatHistory),
                      !.isWaitingForResponse = FALSE,
                      !.lastChatHistoryLength = Len(s.chatHistory)]
       ELSE c

\* An effect that takes the confirmed history and goes on waiting.
SyncEffect_keepsWaiting(c, s) ==
  IF c.previousQuery # s.researchQuery
  THEN [c EXCEPT !.localMessages = <<>>,
                 !.isWaitingForResponse = FALSE,
                 !.previousQuery = s.researchQuery,
                 !.localError = NullString,
                 !.lastChatHistoryLength = 0,
                 !.initialQuestionProcessed = FALSE]
  ELSE IF Len(s.chatHistory) > c.lastChatHistoryLength
       THEN [c EXCEPT !.localMessages = Confirmed(s.chatHistory),
                      !.lastChatHistoryLength = Len(s.chatHistory)]
       ELSE c

\* ChatInterface: one run of the effect that follows researchQuery,
\* chatHistory and isWaitingForResponse.
SyncEffect(c, s) ==
  IF c.previousQuery # s.researchQuery
  THEN [c EXCEPT !.localMessages = <<>>,
                 !.isWaitingForResponse = FALSE,
                 !.previousQuery = s.researchQuery,
                 !.localError = NullString,
                 !.lastChatHistoryLength = 0,
                 !.initialQuestionProcessed = FALSE]
  ELSE IF Len(s.chatHistory) > c.lastChatHistoryLength
       THEN [c EXCEPT !.localMessages = Confirmed(s.chatHistory),
                      !.isWaitingForResponse = FALSE,
                      !.lastChatHistoryLength = Len(s.chatHistory)]
       ELSE c

\* The effect runs, and runs again when it changed isWaitingForResponse,
\* which is one of its dependencies.
SyncEffects(c, s) ==
  IF SyncEffect(c, s).isWaitingForResponse # c.isWaitingForResponse
  THEN SyncEffect(SyncEffect(c, s), s)
  ELSE SyncEffect(c, s)

\* The panel after a render with the controller's state s; depsChanged says
\* whether a dependency of the effect changed.
Observe(c, s, depsChanged) ==
  IF ~SummariesShownIn(s) THEN ChatClosed(c.mounts)
  ELSE IF c.isChatOpen /\ depsChanged THEN SyncEffects(c, s)
  ELSE c

\* App renders HeroSection, which holds the SearchBar, when the controller's
\* state is s.
HeroSectionShownIn(s) ==
  /\ ~s.isLoading
  /\ s.currentStep \notin {"recommendations", "summaries", "chat"}

\* The SearchBar after a render with the controller's state s.
ObserveSearchBar(sb, s) ==
  IF ~HeroSectionShownIn(s) THEN SearchBarRemoved
  ELSE IF sb.mounted THEN sb
  ELSE SearchBarCreated

\* The chat panel after the render that follows an operation of the
\* controller.
ObservedChat ==
  chat' = Observe(chat, state',
                  \/ state'.researchQuery # state.researchQuery
                  \/ state'.chatHistory # state.chatHistory
                  \/ lastCall' = Call("sendChatMessage", "fulfilled",
                                      NullString))

\* The render that follows an operation of the controller.
Observed ==
  /\ ObservedChat
  /\ searchBar' = ObserveSearchBar(searchBar, state')

FailedMessage(handler) ==
  IF handler = "handleSubmit"
  THEN "Failed to send message. Please try again."
  ELSE "Failed to send question. Please try again."

\* The catch block of the handler that awaited pending[i], then the render.
Caught(i) ==
  /\ chat' = Observe(IF chat.isChatOpen /\ pending[i].caller.view = chat.mounts
                       THEN [chat EXCEPT
                               !.localError = FailedMessage(pending[i].caller.handler),
                               !.isWaitingForResponse = FALSE]
                       ELSE chat,
                       state', TRUE)
  /\ searchBar' = ObserveSearchBar(searchBar, state')

\* A handler that adds the message and does not start waiting.
Asked_notWaiting(c, question) ==
  [c EXCEPT !.localError = NullString,
            !.localMessages = Append(@, Optimistic(question))]

\* The state a handler sets before it awaits sendChatMessage.
Asked(c, question) ==
  [c EXCEPT !.localError = NullString,
            !.isWaitingForResponse = TRUE,
            !.localMessages = Append(@, Optimistic(question))]

\* ChatInterface: the form is submitted with the text typed.
handleSubmit(message) ==
  /\ chat.isChatOpen
  /\ IF Len(trim(message)) = 0 \/ state.isLoading \/ chat.isWaitingForResponse
     THEN UNCHANGED vars
     ELSE /\ SendChatMessageFrom(Caller(chat.mounts, "handleSubmit"),
                                 trim(message), state.researchQuery,
                                 state.chatHistory)
          /\ chat' = SyncEffects(Asked(chat, trim(message)), state)

\* ChatInterface: a starter question or a follow-up question is clicked.
handleQuestionClick(q) ==
  /\ chat.isChatOpen
  /\ IF state.isLoading \/ chat.isWaitingForResponse
     THEN UNCHANGED vars
     ELSE /\ SendChatMessageFrom(Caller(chat.mounts, "handleQuestionClick"),
                                 q, state.researchQuery, state.chatHistory)
          /\ chat' = SyncEffects(Asked(chat, q), state)

\* An initial question effect that does not tell ArticleSummaries that the
\* question was sent.
InitialQuestionEffect_unsignalled(c, runs, waiting) ==
  IF runs /\ c.selectedQuestion # <<>> /\ ~c.initialQuestionProcessed
  THEN IF state.isLoading \/ waiting
       THEN /\ chat' = [c EXCEPT !.initialQuestionProcessed = TRUE]
            /\ UNCHANGED controller
       ELSE /\ SendChatMessageFrom(Caller(c.mounts, "handleQuestionClick"),
                                   c.selectedQuestion, state.researchQuery,
                                   state.chatHistory)
            /\ chat' = SyncEffects(
                         Asked([c EXCEPT !.initialQuestionProcessed = TRUE],
                               c.selectedQuestion),
                         state)
  ELSE /\ chat' = c
       /\ UNCHANGED controller

\* ChatInterface: the effect on initialQuestion, in a render whose panel is
\* c and whose isWaitingForResponse was waiting; runs says whether the effect
\* runs (the view was created, or initialQuestion changed).  It ends with
\* onQuestionSent, which sets selectedQuestion to null.
InitialQuestionEffect(c, runs, waiting) ==
  IF runs /\ c.selectedQuestion # <<>> /\ ~c.initialQuestionProcessed
  THEN IF state.isLoading \/ waiting
       THEN /\ chat' = [c EXCEPT !.initialQuestionProcessed = TRUE,
                                 !.selectedQuestion = <<>>]
            /\ UNCHANGED controller
       ELSE /\ SendChatMessageFrom(Caller(c.mounts, "handleQuestionClick"),
                                   c.selectedQuestion, state.researchQuery,
                                   state.chatHistory)
            /\ chat' = SyncEffects(
                         Asked([c EXCEPT !.initialQuestionProcessed = TRUE,
                                         !.selectedQuestion = <<>>],
                               c.selectedQuestion),
                         state)
  ELSE /\ chat' = c
       /\ UNCHANGED controller

\* ArticleSummaries: the floating button opens the chat panel.
openChat ==
  /\ ArticleSummariesShown
  /\ IF chat.isChatOpen
     THEN UNCHANGED vars
     ELSE /\ chat.mounts < MaxMounts
          /\ InitialQuestionEffect(SyncEffect(Mounted(chat, state), state),
                                   TRUE, FALSE)

\* ArticleSummaries: the X of the chat panel.
closeChat ==
  /\ chat.isChatOpen
  /\ chat' = Unmounted(chat)
  /\ UNCHANGED controller

\* ArticleSummaries: the k-th suggested question is clicked.
clickSuggestedQuestion(k) ==
  /\ ArticleSummariesShown
  /\ k \in 1..Len(state.summaries.suggested_questions)
  /\ IF chat.isChatOpen
     THEN InitialQuestionEffect(
            [chat EXCEPT
               !.selectedQuestion = state.summaries.suggested_questions[k]],
            state.summaries.suggested_questions[k] # chat.selectedQuestion,
            chat.isWaitingForResponse)
     ELSE /\ chat.mounts < MaxMounts
          /\ InitialQuestionEffect(
               [SyncEffect(Mounted(chat, state), state) EXCEPT
                  !.selectedQuestion = state.summaries.suggested_questions[k]],
               TRUE, FALSE)

Next ==
  \/ \E status \in SystemStatuses : LoadSystemStatusFulfilled(status)
       /\ Observed
  \/ LoadSystemStatusRejected /\ Observed
  \/ \E query \in Strings : GetRecommendations(query)
       /\ Observed
  \/ \E i \in 1..Len(pending), response \in RecommendationLists :
       GetRecommendationsFulfilled(i, response)
       /\ Observed
  \/ \E i \in 1..Len(pending), message \in ErrorMessages :
       GetRecommendationsRejected(i, message)
       /\ Observed
  \/ \E articleId \in 0..MaxArticleId : selectArticle(articleId)
       /\ Observed
  \/ \E articleId \in 0..MaxArticleId : deselectArticle(articleId)
       /\ Observed
  \/ clearSelections /\ Observed
  \/ \E selectedArticles \in RecommendationLists, researchQuery \in Strings :
       GetSummaries(selectedArticles, researchQuery)
       /\ Observed
  \/ \E i \in 1..Len(pending), response \in SummaryResponses :
       GetSummariesFulfilled(i, response)
       /\ Observed
  \/ \E i \in 1..Len(pending), message \in ErrorMessages :
       GetSummariesRejected(i, message)
       /\ Observed
  \/ \E userQuestion \in Strings : SendChatMessage(userQuestion)
       /\ Observed
  \/ \E i \in 1..Len(pending), response \in ChatResponses :
       SendChatMessageFulfilled(i, response)
       /\ Observed
  \/ \E i \in 1..Len(pending), message \in ErrorMessages :
       SendChatMessageRejected(i, message)
       /\ Caught(i)
  \/ \E loading \in BOOLEAN : setLoading(loading)
       /\ Observed
  \/ \E error \in DismissedOrMapped : setError(error)
       /\ Observed
  \/ \E query \in Strings : setResearchQuery(query)
       /\ Observed
  \/ \E question \in Strings : selectSuggestedQuestion(question)
       /\ Observed
  \/ \E step \in ResearchStep : nextStep(step)
       /\ Observed
  \/ resetResearch /\ Observed

Spec == Init /\ [][Next]_vars

(***************************************************************************)
(* Selection: the operations that write recommendations or                 *)
(* selectedArticles.                                                       *)
(***************************************************************************)
NextSelection ==
  \/ GetRecommendations(<<"a">>) /\ Observed
  \/ \E i \in 1..Len(pending), response \in FreshRecommendationLists :
       GetRecommendationsFulfilled(i, response)
       /\ Observed
  \/ \E articleId \in 0..MaxArticleId : selectArticle(articleId)
       /\ Observed
  \/ \E articleId \in 0..MaxArticleId : deselectArticle(articleId)
       /\ Observed
  \/ clearSelections /\ Observed
  \/ resetResearch /\ Observed

SpecSelection == Init /\ [][NextSelection]_vars

(***************************************************************************)
(* Requests: the three operations that call the research service.          *)
(***************************************************************************)
ShortRecommendationLists == {l \in RecommendationLists : Len(l) <= 1}

NextRequests ==
  \/ \E query \in Strings : GetRecommendations(query)
       /\ Observed
  \/ \E i \in 1..Len(pending), response \in ShortRecommendationLists :
       GetRecommendationsFulfilled(i, response)
       /\ Observed
  \/ \E i \in 1..Len(pending), message \in ErrorMessages :
       GetRecommendationsRejected(i, message)
       /\ Observed
  \/ \E researchQuery \in Strings :
       GetSummaries(state.selectedArticles, researchQuery)
       /\ Observed
  \/ \E i \in 1..Len(pending), response \in SummaryResponses :
       GetSummariesFulfilled(i, response)
       /\ Observed
  \/ \E i \in 1..Len(pending), message \in ErrorMessages :
       GetSummariesRejected(i, message)
       /\ Observed
  \/ \E userQuestion \in Strings : SendChatMessage(userQuestion)
       /\ Observed
  \/ \E i \in 1..Len(pending), response \in ChatResponses :
       SendChatMessageFulfilled(i, response)
       /\ Observed
  \/ \E i \in 1..Len(pending), message \in ErrorMessages :
       SendChatMessageRejected(i, message)
       /\ Caught(i)
  \/ resetResearch /\ Observed

SpecRequests == Init /\ [][NextRequests]_vars

(***************************************************************************)
(* Summaries: one search, one article to select, and the requests for      *)
(* summaries and chat answers about it.                                    *)
(***************************************************************************)
NextSummaries ==
  \/ GetRecommendations(<<"a">>) /\ Observed
  \/ \E i \in 1..Len(pending) :
       GetRecommendationsFulfilled(i, <<[id |-> 1]>>)
       /\ Observed
  \/ selectArticle(1) /\ Observed
  \/ \E researchQuery \in Strings :
       GetSummaries(state.selectedArticles, researchQuery)
       /\ Observed
  \/ \E i \in 1..Len(pending), response \in SummaryResponses :
       GetSummariesFulfilled(i, response)
       /\ Observed
  \/ \E i \in 1..Len(pending), message \in ErrorMessages :
       GetSummariesRejected(i, message)
       /\ Observed
  \/ SendChatMessage(<<"a">>) /\ Observed
  \/ \E i \in 1..Len(pending), response \in ChatResponses :
       SendChatMessageFulfilled(i, response)
       /\ Observed

SpecSummaries == Init /\ [][NextSummaries]_vars

(***************************************************************************)
(* The views of the search page, which call the controller for the user:   *)
(* SearchBar, SearchResults, ArticleRecommendations.                        *)
(***************************************************************************)
\* SearchBar: the form is submitted with the text typed.
handleSearch(query) ==
  IF Len(trim(query)) = 0
  THEN UNCHANGED controller
  ELSE GetRecommendationsAwaited(trim(query), SearchRequest(trim(query)))

\* ArticleRecommendations: the k-th card is clicked.
handleArticleToggle(k) ==
  /\ ArticleRecommendationsShown
  /\ k \in 1..Len(state.recommendations)
  /\ IF IsSelected(state.recommendations[k])
     THEN deselectArticle(state.recommendations[k].id)
     ELSE selectArticle(state.recommendations[k].id)

\* A Continue button that asks for summaries whatever the selection.
handleContinue_unguarded ==
  /\ ArticleRecommendationsShown
  /\ GetSummaries(state.selectedArticles, state.researchQuery)

\* ArticleRecommendations: the Continue button.
handleContinue ==
  /\ ArticleRecommendationsShown
  /\ IF Len(state.selectedArticles) > 0
     THEN GetSummaries(state.selectedArticles, state.researchQuery)
     ELSE UNCHANGED controller

\* SearchResults: Back to Articles.
handleGoBack ==
  /\ ArticleSummariesShown
  /\ nextStep("recommendations")

NextWizard ==
  \/ \E query \in Strings : handleSearch(query)
       /\ Observed
  \/ \E i \in 1..Len(pending), response \in FreshRecommendationLists :
       GetRecommendationsFulfilled(i, response)
       /\ Observed
  \/ \E i \in 1..Len(pending), message \in ErrorMessages :
       GetRecommendationsRejected(i, message)
       /\ Observed
  \/ \E k \in 1..MaxRecs : handleArticleToggle(k)
       /\ Observed
  \/ handleContinue /\ Observed
  \/ \E i \in 1..Len(pending), response \in SummaryResponses :
       GetSummariesFulfilled(i, response)
       /\ Observed
  \/ \E i \in 1..Len(pending), message \in ErrorMessages :
       GetSummariesRejected(i, message)
       /\ Observed
  \/ handleGoBack /\ Observed

SpecWizard == Init /\ [][NextWizard]_vars

(***************************************************************************)
(* Chat: searches that lead to the summaries page, and the chat panel of   *)
(* that page.                                                              *)
(***************************************************************************)
ChatTopics == {<<"a">>, <<"a", "a">>}

NextChat ==
  \/ \E query \in ChatTopics : handleSearch(query)
       /\ Observed
  \/ \E i \in 1..Len(pending) :
       GetRecommendationsFulfilled(i, <<[id |-> 1]>>)
       /\ Observed
  \/ handleArticleToggle(1) /\ Observed
  \/ handleContinue /\ Observed
  \/ \E i \in 1..Len(pending), response \in SummaryResponses :
       GetSummariesFulfilled(i, response)
       /\ Observed
  \/ openChat /\ UNCHANGED searchBar
  \/ closeChat /\ UNCHANGED searchBar
  \/ \E k \in 1..MaxQuestions : clickSuggestedQuestion(k)
       /\ UNCHANGED searchBar
  \/ \E message \in Strings : handleSubmit(message)
       /\ UNCHANGED searchBar
  \/ handleQuestionClick(<<"a">>) /\ UNCHANGED searchBar
  \/ \E i \in 1..Len(pending), response \in ChatResponses :
       SendChatMessageFulfilled(i, response)
       /\ Observed
  \/ \E i \in 1..Len(pending), message \in ErrorMessages :
       SendChatMessageRejected(i, message)
       /\ Caught(i)

SpecChat == Init /\ [][NextChat]_vars

(***************************************************************************)
(* Reset: the system status of the mount effect, one flow up to the chat   *)
(* answers, and resetResearch.                                             *)
(***************************************************************************)
NextReset ==
  \/ \E status \in SystemStatuses : LoadSystemStatusFulfilled(status)
       /\ Observed
  \/ LoadSystemStatusRejected /\ Observed
  \/ GetRecommendations(<<"a">>) /\ Observed
  \/ \E i \in 1..Len(pending) :
       GetRecommendationsFulfilled(i, <<[id |-> 1]>>)
       /\ Observed
  \/ selectArticle(1) /\ Observed
  \/ GetSummaries(state.selectedArticles, state.researchQuery) /\ Observed
  \/ \E i \in 1..Len(pending), response \in SummaryResponses :
       GetSummariesFulfilled(i, response)
       /\ Observed
  \/ SendChatMessage(<<"a">>) /\ Observed
  \/ \E i \in 1..Len(pending), response \in ChatResponses :
       SendChatMessageFulfilled(i, response)
       /\ Observed
  \/ resetResearch /\ Observed

SpecReset == Init /\ [][NextReset]_vars

(***************************************************************************)
(* The landing page of App: HeroSection with the SearchBar.js, whose       *)
(* onSearch is handleGetRecommendations.                                   *)
(***************************************************************************)
\* SearchBar.js: the form is submitted with the text typed; the text goes
\* to onSearch as typed.
SearchBar_handleSearch(query) ==
  /\ searchBar.mounted
  /\ ~searchBar.isSearching
  /\ IF Len(trim(query)) = 0
     THEN UNCHANGED vars
     ELSE /\ GetRecommendations(query)
          /\ ObservedChat
          /\ searchBar' = ObserveSearchBar(
                             [searchBar EXCEPT !.isSearching = TRUE], state')

\* SearchBar.js: Cancel on the overlay that is rendered while isSearching.
handleCancel ==
  /\ searchBar.mounted
  /\ searchBar.isSearching
  /\ searchBar' = [searchBar EXCEPT !.isSearching = FALSE]
  /\ UNCHANGED <<controller, chat>>

\* App: the home button of the Navbar.
handleGoHome == resetResearch

NextHero ==
  \/ \E status \in SystemStatuses : LoadSystemStatusFulfilled(status)
       /\ Observed
  \/ \E query \in Strings : SearchBar_handleSearch(query)
  \/ \E i \in 1..Len(pending), response \in ShortRecommendationLists :
       GetRecommendationsFulfilled(i, response)
       /\ Observed
  \/ \E i \in 1..Len(pending), message \in ErrorMessages :
       GetRecommendationsRejected(i, message)
       /\ Observed
  \/ \E error \in DismissedOrMapped : setError(error)
       /\ Observed
  \/ \E articleId \in 1..MaxArticleId : selectArticle(articleId)
       /\ Observed
  \/ \E articleId \in 1..MaxArticleId : deselectArticle(articleId)
       /\ Observed
  \/ handleGoHome /\ Observed

SpecHero == Init /\ [][NextHero]_vars

(***************************************************************************)
(* The operations of the controller called directly, around one flow.      *)
(***************************************************************************)
\* Texts a caller may pass as a query: plain, and with a leading or a
\* trailing blank.
Texts == {<<"a">>, <<" ", "a">>, <<"a", " ">>}

NextOperations ==
  \/ \E query \in Texts : setResearchQuery(query)
       /\ Observed
  \/ \E question \in {<<"a">>, <<"a", "a">>} :
       selectSuggestedQuestion(question)
       /\ Observed
  \/ \E step \in ResearchStep : nextStep(step)
       /\ Observed
  \/ GetRecommendations(<<"a">>) /\ Observed
  \/ \E i \in 1..Len(pending) :
       GetRecommendationsFulfilled(i, <<[id |-> 1]>>)
       /\ Observed
  \/ selectArticle(1) /\ Observed
  \/ GetSummaries(state.selectedArticles, state.researchQuery) /\ Observed
  \/ \E i \in 1..Len(pending) :
       GetSummariesFulfilled(i, [article_summaries |-> "s1",
                                 suggested_questions |-> <<>>])
       /\ Observed
  \/ SendChatMessage(<<"a">>) /\ Observed
  \/ \E i \in 1..Len(pending) :
       SendChatMessageFulfilled(
         i, [chat_history |-> <<[role |-> "user", message |-> <<"a">>]>>,
             follow_up_questions |-> <<>>])
       /\ Observed
  \/ resetResearch /\ Observed

SpecOperations == Init /\ [][NextOperations]_vars

(***************************************************************************)
(* The selection operations called on any step of the flow.                *)
(***************************************************************************)
NextSteps ==
  \/ GetRecommendations(<<"a">>) /\ Observed
  \/ \E i \in 1..Len(pending) :
       GetRecommendationsFulfilled(i, <<[id |-> 1], [id |-> 2]>>)
       /\ Observed
  \/ \E articleId \in 0..MaxArticleId : selectArticle(articleId)
       /\ Observed
  \/ \E articleId \in 0..MaxArticleId : deselectArticle(articleId)
       /\ Observed
  \/ clearSelections /\ Observed
  \/ \E step \in ResearchStep : nextStep(step)
       /\ Observed

SpecSteps == Init /\ [][NextSteps]_vars

(***************************************************************************)
(* The two pages of the router, Home and SearchPage, under the same        *)
(* ResearchProvider: the category shortcuts and the SearchBar of Home, the *)
(* SearchBar and the logo of SearchNavbar, and the effect of SearchResults *)
(* on the q parameter of the URL.                                          *)
(***************************************************************************)
\* The categories of CategoryTags followed here, and their search terms.
categories == {"Humans", "Plants"}

categoryMap == [Humans |-> <<"a">>, Plants |-> <<"a", "a">>]

\* What the service answers to getRecommendations(query).
ServiceAnswer(query) == IF query = <<"a">> THEN <<[id |-> 1]>> ELSE <<>>

\* CategoryTags: a category shortcut of Home is clicked.
handleCategoryClick(category) ==
  /\ location.pathname = "/"
  /\ location' = SearchLocation(categoryMap[category])
  /\ automatic' = 0
  /\ UNCHANGED <<build, state, pending, statusPending, lastCall, chatTopic,
                 chat, searchBar>>

\* SearchNavbar: the logo is clicked; SearchResults leaves the screen.
handleLogoClick ==
  /\ location.pathname = "/search"
  /\ location' = HomeLocation
  /\ automatic' = 0
  /\ chat' = ChatClosed(chat.mounts)
  /\ UNCHANGED <<build, state, pending, statusPending, lastCall, chatTopic,
                 searchBar>>

\* SearchResults: the condition under which the effect on the q parameter
\* calls getRecommendations.
SearchParamsEffectDue ==
  /\ location.pathname = "/search"
  /\ location.q # <<>>
  /\ location.q # state.researchQuery
  /\ ~state.isLoading
  /\ Len(state.recommendations) = 0

\* SearchResults: the effect on the q parameter, which runs after the render
\* that changed one of its dependencies.
SearchParamsEffect ==
  /\ SearchParamsEffectDue
  /\ GetRecommendationsAwaited(location.q, UrlRequest(location.q))

\* A step of the service: the effects of the last render have run by then.
Settled == ~SearchParamsEffectDue

\* A step of the user: the LoadingAnimation that a SearchBar lays over the
\* whole screen while its handleSearch awaits (isSearching) is not shown.
UserCanAct ==
  /\ Settled
  /\ \A i \in 1..Len(pending) : pending[i] # SearchRequest(pending[i].query)

\* SearchBar: the input and the submit button are enabled.
SearchBarEnabled == UserCanAct /\ ~state.isLoading

NextUrl ==
  \/ \E query \in ChatTopics : SearchBarEnabled /\ handleSearch(query)
       /\ Observed
  \/ \E category \in categories :
       UserCanAct /\ handleCategoryClick(category)
  \/ UserCanAct /\ handleLogoClick
  \/ SearchParamsEffect /\ Observed
  \/ \E i \in 1..Len(pending) :
       Settled /\ GetRecommendationsFulfilled(i, ServiceAnswer(pending[i].query))
       /\ Observed
  \/ \E i \in 1..Len(pending), message \in ErrorMessages :
       Settled /\ GetRecommendationsRejected(i, message)
       /\ Observed

SpecUrl == Init /\ [][NextUrl]_vars

(***************************************************************************)
(* getRecommendations called for two topics, the calls overlapping, with   *)
(* the answer of the service to each topic.                                *)
(***************************************************************************)
NextOverlap ==
  \/ \E query \in ChatTopics : GetRecommendations(query)
       /\ Observed
  \/ \E i \in 1..Len(pending) :
       GetRecommendationsFulfilled(i, ServiceAnswer(pending[i].query))
       /\ Observed
  \/ \E i \in 1..Len(pending), message \in ErrorMessages :
       GetRecommendationsRejected(i, message)
       /\ Observed
  \/ \E status \in SystemStatuses : LoadSystemStatusFulfilled(status)
       /\ Observed
  \/ LoadSystemStatusRejected /\ Observed

SpecOverlap == Init /\ [][NextOverlap]_vars

(***************************************************************************)
(* One flow up to the chat panel and the questions typed into it.  The     *)
(* service answers every request it was sent, sooner or later; the user    *)
(* is free never to act again.                                             *)
(***************************************************************************)
ServiceAnswers ==
  \/ \E i \in 1..Len(pending) :
       GetRecommendationsFulfilled(i, <<[id |-> 1]>>)
       /\ Observed
  \/ \E i \in 1..Len(pending) :
       GetSummariesFulfilled(i, [article_summaries |-> "s1",
                                 suggested_questions |-> <<>>])
       /\ Observed
  \/ \E i \in 1..Len(pending), response \in ChatResponses :
       SendChatMessageFulfilled(i, response)
       /\ Observed
  \/ \E i \in 1..Len(pending), message \in ErrorMessages :
       SendChatMessageRejected(i, message)
       /\ Caught(i)

NextAsk ==
  \/ handleSearch(<<"a">>) /\ Observed
  \/ handleArticleToggle(1) /\ Observed
  \/ handleContinue /\ Observed
  \/ openChat /\ UNCHANGED searchBar
  \/ closeChat /\ UNCHANGED searchBar
  \/ handleSubmit(<<"a">>) /\ UNCHANGED searchBar
  \/ ServiceAnswers

SpecAsk == Init /\ [][NextAsk]_vars /\ WF_vars(ServiceAnswers)

(***************************************************************************)
(* Properties of the selection.                                            *)
(***************************************************************************)
InSelection(id) == id \in Ids(state.selectedArticles)

FlaggedSelected(id) ==
  \E i \in 1..Len(state.recommendations) :
    state.recommendations[i].id = id /\ IsSelected(state.recommendations[i])

\* C1: an article id occurs in selectedArticles if and only if the
\* recommendation with that id has selected = true.
SelectionMatchesFlags ==
  \A id \in 0..MaxArticleId : InSelection(id) <=> FlaggedSelected(id)

\* C2: selecting the same article twice leaves the state that selecting it
\* once leaves.
SelectTwiceIsSelectOnce ==
  \A id \in 0..MaxArticleId :
    SELECT_ARTICLE(SELECT_ARTICLE(state, id), id) = SELECT_ARTICLE(state, id)

RoundTrip(id) == DESELECT_ARTICLE(SELECT_ARTICLE(state, id), id)

\* C3 as stated: for every article of the recommendation list, selected or
\* not, select followed by deselect restores selectedArticles.
RoundTripRestoresAlways ==
  \A i \in 1..Len(state.recommendations) :
    RoundTrip(state.recommendations[i].id).selectedArticles
      = state.selectedArticles

\* C3 as amended: for every article of the recommendation list that is not
\* in selectedArticles, select followed by deselect restores selectedArticles.
RoundTripRestoresUnselected ==
  \A i \in 1..Len(state.recommendations) :
    ~InSelection(state.recommendations[i].id) =>
      RoundTrip(state.recommendations[i].id).selectedArticles
        = state.selectedArticles

\* A deselect has just undone a select while another article stays selected
\* and the list holds an article outside the selection.
RoundTripWitness ==
  /\ lastCall.op = "deselectArticle"
  /\ state.selectedArticles # <<>>
  /\ \E i \in 1..Len(state.recommendations) :
       /\ ~InSelection(state.recommendations[i].id)
       /\ "selected" \in DOMAIN state.recommendations[i]
       /\ ~state.recommendations[i].selected

(***************************************************************************)
(* Properties of the requests.                                             *)
(***************************************************************************)
\* Empty or white space only.
Blank(query) == \A k \in 1..Len(query) : query[k] = " "

\* C4: a successful getRecommendations sets currentStep to 'recommendations'
\* and leaves a list none of whose articles is selected.
RecommendationsArriveUnselected ==
  [][\A i \in 1..Len(pending), response \in RecommendationLists :
       GetRecommendationsFulfilled(i, response) =>
         /\ state'.currentStep = "recommendations"
         /\ \A k \in 1..Len(state'.recommendations) :
              ~IsSelected(state'.recommendations[k])]_vars

\* C5: a successful getRecommendations replaces the list and leaves
\* selectedArticles empty and summaries null.
RecommendationsClearSelectionAndSummaries ==
  [][\A i \in 1..Len(pending), response \in RecommendationLists :
       GetRecommendationsFulfilled(i, response) =>
         /\ state'.recommendations = response
         /\ state'.selectedArticles = <<>>
         /\ state'.summaries = Null]_vars

\* C6: getSummaries with an empty or blank query rejects with 'Research
\* query is required', issues no request and leaves isLoading false.
BlankQueryRejectedBeforeLoading ==
  [][\A query \in Strings :
       (Blank(query) /\ GetSummaries(state.selectedArticles, query)) =>
         /\ lastCall' = Call("getSummaries", "rejected", ValidationMessage)
         /\ pending' = pending
         /\ state'.isLoading = FALSE]_vars

\* getSummaries has just rejected a blank query while a request is pending.
BlankQueryWitness ==
  /\ lastCall = Call("getSummaries", "rejected", ValidationMessage)
  /\ state.error = ValidationMessage
  /\ pending # <<>>

\* C7: getRecommendations with a query that is blank after trimming fails
\* with a validation error, issues no request and keeps the step.
BlankSearchRejected ==
  [][\A query \in Strings :
       (Blank(query) /\ GetRecommendations(query)) =>
         /\ lastCall'.outcome = "rejected"
         /\ pending' = pending
         /\ state'.currentStep = state.currentStep]_vars

RequestFails ==
  \/ \E i \in 1..Len(pending), message \in ErrorMessages :
       \/ GetRecommendationsRejected(i, message)
       \/ GetSummariesRejected(i, message)
       \/ SendChatMessageRejected(i, message)
  \/ \E query \in Strings :
       Blank(query) /\ GetSummaries(state.selectedArticles, query)

\* C8: when a network-backed operation fails, currentStep stays, isLoading
\* is false, error holds the message and the failure is thrown to the caller.
FailureKeepsStepAndReports ==
  [][RequestFails =>
       /\ state'.currentStep = state.currentStep
       /\ state'.isLoading = FALSE
       /\ state'.error # NullString
       /\ lastCall'.outcome = "rejected"
       /\ lastCall'.thrown = state'.error]_vars

\* A request has just failed at a step past the first, with another pending.
FailureWitness ==
  /\ lastCall.outcome = "rejected"
  /\ lastCall.thrown \in ErrorMessages
  /\ state.currentStep # "research-query"
  /\ pending # <<>>

RequestStarts ==
  \E query \in Strings :
    \/ GetRecommendations(query)
    \/ ~Blank(query) /\ GetSummaries(state.selectedArticles, query)
    \/ SendChatMessage(query)

RequestSucceeds ==
  \E i \in 1..Len(pending) :
    \/ \E response \in RecommendationLists :
         GetRecommendationsFulfilled(i, response)
    \/ \E response \in SummaryResponses : GetSummariesFulfilled(i, response)
    \/ \E response \in ChatResponses : SendChatMessageFulfilled(i, response)

\* C9: every network-backed operation clears the error and sets isLoading
\* when invoked, and leaves isLoading false and error null on success.
RequestsSetAndClearLoading ==
  [][/\ RequestStarts => state'.isLoading /\ state'.error = NullString
     /\ RequestSucceeds => ~state'.isLoading /\ state'.error = NullString]_vars

\* C10: a successful getSummaries stores the response as summaries and its
\* suggested questions, sets currentStep to 'summaries' and keeps
\* recommendations, selectedArticles, researchQuery and chatHistory.
SummariesStoredAndRestKept ==
  [][\A i \in 1..Len(pending), response \in SummaryResponses :
       GetSummariesFulfilled(i, response) =>
         /\ state'.summaries = response
         /\ state'.suggestedQuestions = response.suggested_questions
         /\ state'.currentStep = "summaries"
         /\ state'.recommendations = state.recommendations
         /\ state'.selectedArticles = state.selectedArticles
         /\ state'.researchQuery = state.researchQuery
         /\ state'.chatHistory = state.chatHistory]_vars

\* Summaries have just arrived for a selection, after a chat answer.
SummariesWitness ==
  /\ lastCall = Call("getSummaries", "fulfilled", NullString)
  /\ state.summaries # Null
  /\ state.suggestedQuestions # <<>>
  /\ state.selectedArticles # <<>>
  /\ state.chatHistory # <<>>

ChatHistoryIsTheServiceHistory ==
  [][/\ \A userQuestion \in Strings :
          SendChatMessage(userQuestion) =>
            state'.chatHistory = state.chatHistory
     /\ \A i \in 1..Len(pending), response \in ChatResponses :
          SendChatMessageFulfilled(i, response) =>
            /\ state'.chatHistory = response.chat_history
            /\ state'.followUpQuestions = response.follow_up_questions
            /\ state'.currentStep = "chat"]_vars

\* A second chat answer has just replaced a history that was not empty.
ChatAnswerWitness ==
  /\ lastCall = Call("sendChatMessage", "fulfilled", NullString)
  /\ state.currentStep = "chat"
  /\ state.chatHistory # <<>>
  /\ state.followUpQuestions # <<>>
  /\ pending # <<>>

IsPrefix(a, b) == Len(a) <= Len(b) /\ SubSeq(b, 1, Len(a)) = a

\* C13: without a resetResearch, and with a service that answers each
\* request with an extension of the history it was sent, every value of
\* chatHistory is a prefix of the next one.
ChatHistoryOnlyGrows ==
  [][\/ resetResearch
     \/ \E i \in 1..Len(pending), response \in ChatResponses :
          /\ SendChatMessageFulfilled(i, response)
          /\ ~IsPrefix(pending[i].chatHistory, response.chat_history)
     \/ IsPrefix(state.chatHistory, state'.chatHistory)]_vars

(***************************************************************************)
(* Properties of resetResearch.                                            *)
(***************************************************************************)
\* C14: resetResearch sets currentStep to the query step, empties
\* recommendations, selectedArticles, summaries, suggestedQuestions,
\* chatHistory and followUpQuestions, clears researchQuery, isLoading and
\* error, and leaves systemStatus as it was.
ResetClearsAllButStatus ==
  [][resetResearch =>
       /\ state'.currentStep = "research-query"
       /\ state'.recommendations = <<>>
       /\ state'.selectedArticles = <<>>
       /\ state'.summaries = Null
       /\ state'.suggestedQuestions = <<>>
       /\ state'.chatHistory = <<>>
       /\ state'.followUpQuestions = <<>>
       /\ state'.researchQuery = <<>>
       /\ state'.isLoading = FALSE
       /\ state'.error = NullString
       /\ state'.systemStatus = state.systemStatus]_vars

\* resetResearch has just run with the system status loaded and a chat
\* request still awaiting its answer.
ResetWitness ==
  /\ lastCall.op = "resetResearch"
  /\ state.systemStatus \in SystemStatuses
  /\ \E i \in 1..Len(pending) : pending[i].op = "sendChatMessage"

(***************************************************************************)
(* Properties of the chat panel.                                           *)
(***************************************************************************)
ChatInFlight == \E i \in 1..Len(pending) : pending[i].op = "sendChatMessage"

\* A message typed, a starter or follow-up question clicked, or a suggested
\* question handed over as the initial question.
Submission ==
  \/ \E message \in Strings : handleSubmit(message)
  \/ \E q \in Strings : handleQuestionClick(q)
  \/ \E k \in 1..MaxQuestions : clickSuggestedQuestion(k)

\* C15: while a chat message awaits its answer, a further submission adds
\* no message to the transcript and issues no request.
OneQuestionInFlight ==
  [][(ChatInFlight /\ Submission) =>
       /\ pending' = pending
       /\ chat'.localMessages = chat.localMessages]_vars

\* The same ChatInterface is on screen before and after the step.
SameView ==
  /\ chat.isChatOpen
  /\ chat'.isChatOpen
  /\ chat'.mounts = chat.mounts

ChatAnswered ==
  \E i \in 1..Len(pending), response \in ChatResponses :
    SendChatMessageFulfilled(i, response)

\* C16: the transcript of a ChatInterface never gets shorter; an answer that
\* changes the transcript leaves no optimistic message in it, and an
\* optimistic message is never followed by another message.
TranscriptGrowsWithoutDuplicates ==
  [][SameView =>
       /\ Len(chat'.localMessages) >= Len(chat.localMessages)
       /\ (ChatAnswered /\ chat'.localMessages # chat.localMessages) =>
            \A k \in 1..Len(chat'.localMessages) :
              ~IsOptimistic(chat'.localMessages[k])
       /\ \A k \in 1..Len(chat'.localMessages) :
            IsOptimistic(chat'.localMessages[k]) =>
              k = Len(chat'.localMessages)]_vars

\* The second ChatInterface shows the history of an answer that has just
\* arrived for a question it sent.
TranscriptWitness ==
  /\ lastCall = Call("sendChatMessage", "fulfilled", NullString)
  /\ chat.isChatOpen
  /\ chat.mounts = MaxMounts
  /\ chat.localMessages # <<>>
  /\ chat.localMessages = Confirmed(state.chatHistory)
  /\ ~chat.isWaitingForResponse
  /\ pending = <<>>

\* C17: when the confirmed history a ChatInterface is rendered with is longer
\* than the length it recorded, its transcript becomes the confirmed history,
\* it stops waiting and it records the new length.
LongerHistoryReplacesTranscript ==
  [][(/\ SameView
      /\ state'.researchQuery = chat.previousQuery
      /\ Len(state'.chatHistory) > chat.lastChatHistoryLength) =>
       /\ chat'.localMessages = Confirmed(state'.chatHistory)
       /\ ~chat'.isWaitingForResponse
       /\ chat'.lastChatHistoryLength = Len(state'.chatHistory)]_vars

\* The first ChatInterface has taken the history of an answer, which came
\* with follow-up questions.
LongerHistoryWitness ==
  /\ lastCall = Call("sendChatMessage", "fulfilled", NullString)
  /\ chat.isChatOpen
  /\ chat.mounts = 1
  /\ state.followUpQuestions # <<>>
  /\ Len(state.chatHistory) > 0
  /\ chat.lastChatHistoryLength = Len(state.chatHistory)
  /\ chat.localMessages = Confirmed(state.chatHistory)
  /\ ~chat.isWaitingForResponse

\* The messages of a transcript that came from a confirmed history.
ConfirmedPart(messages) ==
  SelectSeq(messages, LAMBDA msg : ~IsOptimistic(msg))

\* C18: a topic starts a new conversation: whenever a ChatInterface is
\* created with confirmed messages, or takes new ones, they are the history
\* of an answer that was asked for on the topic it shows.
NewTopicNewConversation ==
  [][(/\ chat'.isChatOpen
      /\ ConfirmedPart(chat'.localMessages) # <<>>
      /\ \/ chat'.mounts # chat.mounts
         \/ ConfirmedPart(chat'.localMessages)
              # ConfirmedPart(chat.localMessages)) =>
       chatTopic' = state'.researchQuery]_vars

\* The request pending[i] of the ChatInterface on screen is rejected.
OwnSendFails(i) ==
  /\ pending[i].op = "sendChatMessage"
  /\ chat.isChatOpen
  /\ pending[i].caller.view = chat.mounts
  /\ \E message \in ErrorMessages : SendChatMessageRejected(i, message)

\* C19: when the send of the ChatInterface on screen fails, the panel stays
\* usable: it shows a local error, it no longer waits, and the optimistic
\* message has left the transcript.
SendFailureRecovers ==
  [][\A i \in 1..Len(pending) :
       OwnSendFails(i) =>
         /\ chat'.isChatOpen
         /\ chat'.localError # NullString
         /\ ~chat'.isWaitingForResponse
         /\ \A k \in 1..Len(chat'.localMessages) :
              ~IsOptimistic(chat'.localMessages[k])]_vars

\* ArticleSummaries hands a question to the ChatInterface, or creates the
\* ChatInterface with the question it holds.
InitialQuestionSupplied ==
  \/ openChat
  \/ \E k \in 1..MaxQuestions : clickSuggestedQuestion(k)

\* The effect on initialQuestion took the question in this step.
InitialQuestionConsumed ==
  /\ chat'.initialQuestionProcessed
  /\ \/ chat'.mounts # chat.mounts
     \/ ~chat.initialQuestionProcessed

\* C20: an initial question is taken at most once: taking it issues at most
\* one request and leaves ArticleSummaries without a question to hand over
\* again, and a request is only issued for a question that is taken.
InitialQuestionConsumedOnce ==
  [][InitialQuestionSupplied =>
       /\ InitialQuestionConsumed =>
            /\ chat'.selectedQuestion = <<>>
            /\ Len(pending') <= Len(pending) + 1
       /\ pending' # pending =>
            /\ InitialQuestionConsumed
            /\ chat.isChatOpen => ~chat.initialQuestionProcessed]_vars

\* The second ChatInterface was created with a question, has sent it and
\* ArticleSummaries holds no question any more.
InitialQuestionWitness ==
  /\ chat.isChatOpen
  /\ chat.mounts = MaxMounts
  /\ chat.initialQuestionProcessed
  /\ chat.selectedQuestion = <<>>
  /\ chat.isWaitingForResponse
  /\ \E i \in 1..Len(pending) :
       /\ pending[i].op = "sendChatMessage"
       /\ pending[i].caller = Caller(chat.mounts, "handleQuestionClick")

\* C21: every suggested question clicked while the ChatInterface is on
\* screen is sent: the click issues one more chat request from that view.
EverySuggestedQuestionIsSent ==
  [][\A k \in 1..MaxQuestions :
       (chat.isChatOpen /\ clickSuggestedQuestion(k)) =>
         /\ Len(pending') = Len(pending) + 1
         /\ pending'[Len(pending')].op = "sendChatMessage"
         /\ pending'[Len(pending')].caller.view = chat.mounts]_vars

\* C22: whichever getRecommendations call is answered, first or last
\* invoked, its answer becomes the recommendation list.
LastResolvedRecommendationsWin ==
  [][\A i \in 1..Len(pending), response \in ShortRecommendationLists :
       GetRecommendationsFulfilled(i, response) =>
         /\ state'.recommendations = response
         /\ state'.currentStep = "recommendations"
         /\ ~state'.isLoading]_vars

\* One of two overlapping getRecommendations calls was answered and its
\* list stored while the other is still awaited.
OverlappingRecommendationsWitness ==
  /\ lastCall = Call("getRecommendations", "fulfilled", NullString)
  /\ state.recommendations # <<>>
  /\ \E i \in 1..Len(pending) : pending[i].op = "getRecommendations"

\* The operations of the flow can be called.
FlowEnabled ==
  /\ Len(pending) < MaxPending =>
       /\ ENABLED (GetRecommendations(<<"a">>) /\ Observed)
       /\ ENABLED (SendChatMessage(<<"a">>) /\ Observed)
       /\ ENABLED (GetSummaries(state.selectedArticles, state.researchQuery)
                     /\ Observed)
  /\ \A i \in 1..Len(pending) :
       /\ pending[i].op = "getRecommendations" =>
            ENABLED (GetRecommendationsFulfilled(i, <<[id |-> 1]>>)
                     /\ Observed)
       /\ pending[i].op = "getSummaries" =>
            \A response \in SummaryResponses :
              ENABLED (GetSummariesFulfilled(i, response) /\ Observed)
       /\ pending[i].op = "sendChatMessage" =>
            \A response \in ChatResponses :
              ENABLED (SendChatMessageFulfilled(i, response) /\ Observed)
  /\ ENABLED (resetResearch /\ Observed)

\* C23: a failed getStatus changes nothing in the state, reports no error
\* and throws nothing, and the operations of the flow can be called whether
\* systemStatus is null or not.
StatusIsAdvisory ==
  /\ [][LoadSystemStatusRejected =>
          /\ state' = state
          /\ pending' = pending
          /\ lastCall'.thrown = NullString]_vars
  /\ [](state.systemStatus = Null => FlowEnabled)
  /\ [](state.systemStatus # Null => FlowEnabled)

\* getStatus has failed and the flow has reached the chat without a status.
NoStatusWitness ==
  /\ ~statusPending
  /\ state.systemStatus = Null
  /\ state.error = NullString
  /\ state.currentStep = "chat"
  /\ state.chatHistory # <<>>

\* A search sent from the SearchBar awaits its answer.
SearchInFlight ==
  \E i \in 1..Len(pending) : pending[i].op = "getRecommendations"

StoredQueryIsTrimmed ==
  /\ [](state.researchQuery = trim(state.researchQuery))
  /\ [][(\E query \in Texts : setResearchQuery(query)) =>
          pending' = pending]_vars

\* A query is submitted, set, or the flow is reset.
QuerySubmittedOrReset ==
  \/ GetRecommendations(<<"a">>)
  \/ \E query \in Texts : setResearchQuery(query)
  \/ resetResearch

\* C26: once a query is stored, researchQuery changes only when a query is
\* submitted or the flow is reset: no other operation modifies it.
QueryChangesOnlyBySubmission ==
  [][(/\ state.researchQuery # <<>>
      /\ state'.researchQuery # state.researchQuery) =>
       QuerySubmittedOrReset]_vars

\* The ids and the selected flags of a recommendation list, in order.
Flags(recommendations) ==
  [i \in 1..Len(recommendations) |->
     [id |-> recommendations[i].id,
      selected |-> IsSelected(recommendations[i])]]

SelectionKept ==
  /\ Flags(state'.recommendations) = Flags(state.recommendations)
  /\ state'.selectedArticles = state.selectedArticles

\* No recommendation has the id.
Unmatched(articleId) == articleId \notin Ids(state.recommendations)

\* A recommendation has the id, none with the id is flagged, and the id is
\* not in selectedArticles.
Unselected(articleId) ==
  /\ articleId \in Ids(state.recommendations)
  /\ \A i \in 1..Len(state.recommendations) :
       state.recommendations[i].id = articleId =>
         ~IsSelected(state.recommendations[i])
  /\ articleId \notin Ids(state.selectedArticles)

\* C27: selectArticle and deselectArticle with an id of no recommendation,
\* and deselectArticle of an article that is not selected, change neither
\* the flags of the recommendations nor selectedArticles.
UnmatchedSelectionsChangeNothing ==
  [][\A articleId \in 0..MaxArticleId :
       /\ (Unmatched(articleId) /\ selectArticle(articleId)) => SelectionKept
       /\ (Unmatched(articleId) /\ deselectArticle(articleId)) =>
            SelectionKept
       /\ (Unselected(articleId) /\ deselectArticle(articleId)) =>
            SelectionKept]_vars

SelectionOperation ==
  \/ \E articleId \in 0..MaxArticleId : selectArticle(articleId)
  \/ \E articleId \in 0..MaxArticleId : deselectArticle(articleId)
  \/ clearSelections

\* C28: selectArticle, deselectArticle and clearSelections change no field
\* of the state but recommendations and selectedArticles, and send nothing.
SelectionChangesOnlySelection ==
  [][SelectionOperation =>
       /\ \A field \in DOMAIN state
                        \ {"recommendations", "selectedArticles"} :
            state'[field] = state[field]
       /\ pending' = pending]_vars

\* An article was deselected on the chat step and another article is still
\* selected.
SelectionOnChatStepWitness ==
  /\ lastCall = Call("deselectArticle", "returned", NullString)
  /\ state.currentStep = "chat"
  /\ Len(state.recommendations) = 2
  /\ Len(state.selectedArticles) = 1

\* C29: clearSelections leaves the recommendations in their order with
\* their ids, each with selected = false, and empties selectedArticles.
ClearSelectionsClearsAll ==
  [][clearSelections =>
       /\ Len(state'.recommendations) = Len(state.recommendations)
       /\ \A i \in 1..Len(state.recommendations) :
            /\ state'.recommendations[i].id = state.recommendations[i].id
            /\ "selected" \in DOMAIN state'.recommendations[i]
            /\ state'.recommendations[i].selected = FALSE
       /\ state'.selectedArticles = <<>>]_vars

\* Two recommendations, both with selected = false after a clearing.
ClearSelectionsWitness ==
  /\ lastCall = Call("clearSelections", "returned", NullString)
  /\ state.recommendations = <<[id |-> 1, selected |-> FALSE],
                               [id |-> 2, selected |-> FALSE]>>
  /\ state.selectedArticles = <<>>

\* C30: nextStep(step) can be called in every state; it sets currentStep to
\* step, changes no other field and sends nothing.
NextStepOnlySetsStep ==
  /\ [](\A step \in ResearchStep : ENABLED (nextStep(step) /\ Observed))
  /\ [][\A step \in ResearchStep :
          nextStep(step) =>
            /\ state' = [state EXCEPT !.currentStep = step]
            /\ pending' = pending]_vars

\* Back on the recommendations from the chat, with the selection, the
\* summaries and the chat history in the state.
GoBackWitness ==
  /\ lastCall = Call("nextStep", "returned", NullString)
  /\ state.currentStep = "recommendations"
  /\ state.recommendations # <<>>
  /\ state.selectedArticles # <<>>
  /\ state.summaries # Null
  /\ state.chatHistory # <<>>

SubmissionAddsOneMessage ==
  [][\A message \in Strings :
       handleSubmit(message) =>
         /\ Len(trim(message)) = 0 => (chat' = chat /\ pending' = pending)
         /\ pending' # pending =>
              /\ chat'.localMessages
                   = Append(chat.localMessages, Optimistic(trim(message)))
              /\ chat'.isWaitingForResponse
              /\ Len(pending') = Len(pending) + 1
              /\ pending'[Len(pending')].caller
                   = Caller(chat.mounts, "handleSubmit")]_vars

\* A typed message was added after a confirmed history and awaits its
\* answer.
SubmissionWitness ==
  /\ chat.isChatOpen
  /\ chat.isWaitingForResponse
  /\ Len(chat.localMessages) = 2
  /\ ~IsOptimistic(chat.localMessages[1])
  /\ IsOptimistic(chat.localMessages[2])
  /\ \E i \in 1..Len(pending) :
       /\ pending[i].op = "sendChatMessage"
       /\ pending[i].caller = Caller(chat.mounts, "handleSubmit")

(***************************************************************************)
(* Properties of the search page and its URL.                              *)
(***************************************************************************)
\* C33: a click on a category shortcut, made while no request is awaited
\* and for search terms other than the research query, is followed by a
\* getRecommendations call of the search page for those terms, whether or
\* not recommendations of an earlier search are loaded.
CategoryClickSearches ==
  [][\A category \in categories :
       (/\ handleCategoryClick(category)
        /\ pending = <<>>
        /\ categoryMap[category] # state.researchQuery)
       => SearchParamsEffectDue']_vars

\* The automatic request for the q parameter on screen fails.
AutomaticSearchFails(i) ==
  /\ location.pathname = "/search"
  /\ pending[i] = UrlRequest(location.q)
  /\ \E message \in ErrorMessages : GetRecommendationsRejected(i, message)

\* C34: the effect of the search page calls getRecommendations at most once
\* for a value of the q parameter, and when that call fails the effect has
\* no further call to make.
NoAutomaticRetry ==
  /\ [](automatic <= 1)
  /\ [][\A i \in 1..Len(pending) :
          AutomaticSearchFails(i) => ~SearchParamsEffectDue']_vars

(***************************************************************************)
(* Properties of overlapping requests.                                     *)
(***************************************************************************)
Awaited(op) == \E i \in 1..Len(pending) : pending[i].op = op

\* C35: when no getRecommendations request is awaited and the last one
\* succeeded, recommendations holds the articles the service answers for
\* the stored researchQuery.
RecommendationsAnswerResearchQuery ==
  (/\ ~Awaited("getRecommendations")
   /\ lastCall = Call("getRecommendations", "fulfilled", NullString))
  => Ids(state.recommendations) = Ids(ServiceAnswer(state.researchQuery))

\* C36: when isLoading is false, no getRecommendations request and no
\* getSummaries request is awaited.
NotLoadingMeansNothingAwaited ==
  ~state.isLoading =>
    ~Awaited("getRecommendations") /\ ~Awaited("getSummaries")

\* C37: on the steps 'summaries' and 'chat' the summaries are loaded.
LaterStepsHaveSummaries ==
  state.currentStep \in {"summaries", "chat"} => state.summaries # Null

\* The state is initialState apart from systemStatus.
IsReset(s) == s = RESET_RESEARCH(s)

\* C38: a request that resolves right after resetResearch leaves the state
\* as resetResearch left it: initialState apart from systemStatus.
ResetIsStable ==
  [][(/\ lastCall = Call("resetResearch", "returned", NullString)
      /\ Len(pending') < Len(pending))
     => IsReset(state')]_vars

(***************************************************************************)
(* Properties of the chat input.                                           *)
(***************************************************************************)
SendResolved ==
  /\ lastCall.op = "sendChatMessage"
  /\ lastCall.outcome \in {"fulfilled", "rejected"}

\* C39: after a chat send has resolved, by an answer or by a failure, the
\* ChatInterface eventually stops waiting for the response.
ChatInputRecovers == SendResolved ~> ~chat.isWaitingForResponse

====
